---------------------------- MODULE Spec2Model ----------------------------
(***************************************************************************)
(* Model of the instructor-evaluation extractor: extract.py (line          *)
(* reconstruction, front-matter and rating-table extraction, the per-      *)
(* document page loop, the command-line batch loop), calculate.py (Rating  *)
(* and its summary) and the worker loop and summary of desktop_ui.py.      *)
(*                                                                         *)
(* A Python str is a sequence of one-character strings, so that split,     *)
(* strip, slicing and "in" are computed, not assumed.  A call that can     *)
(* raise returns a result record [kind, val, exc]: kind "ok" carries val,  *)
(* kind "none" is Python's None, kind "raise" carries the exception name.  *)
(***************************************************************************)
EXTENDS Integers, Sequences, FiniteSets, TLC

VARIABLES
    \* extract_page applied to one page
    lp_page,      \* the word elements of the page, in document order
    lp_table,     \* the lines returned
    lp_pc,        \* "call", "done" ("idle" outside SpecLines)
    \* extract_frontpage and extract_data_from_page applied to one table
    fx_table,     \* the lines of the page
    fx_front,     \* result of extract_frontpage
    fx_rating,    \* result of extract_data_from_page
    fx_pc,        \* "front", "rating", "done" ("idle" outside SpecField)
    \* parse_pdf_xml on the pages of one document
    d_pages,      \* pages_to_search: each page its word elements
    d_idx,        \* the index of the next page of the loop
    d_frontpage,  \* the local frontpage: None or Ok(record)
    d_out,        \* Pending in the loop, then what parse_pdf_xml returned or raised
    \* the summary roll-ups: desktop_ui._compute_summary and calculate.main
    s_caller,     \* "compute_summary" or "main"
    s_rows,       \* the extracted rows (the dicts of results.json)
    s_pc,         \* "start", "loop", "done" ("idle" outside SpecSummary)
    s_i,          \* rows (main) or ratings (_compute_summary) accumulated so far
    s_ratings,    \* the list ratings
    s_total,      \* the running total
    s_count,      \* main's local count
    s_out,        \* Pending, then the summary, None or the exception
    \* a batch run: the loop of extract.main or of desktop_ui's worker
    b_runner,     \* "main" or "worker"
    b_files,      \* args.pdf_file, or the sorted pdfs of the folder
    b_i,          \* how many files process_pdf_file was called on
    b_output,     \* the list output (main) or extracted (worker)
    b_end,        \* "running", then how the run ended
    b_written,    \* what the run printed or wrote as its results
    \* the desktop window: the Tk main thread and the worker threads of App.run
    u_pdf,        \* the PDF-folder field: "empty", "valid" (exists) or "missing"
    u_out,        \* the output-folder field, likewise
    u_overwrite,  \* the checkbox "Overwrite existing results"
    u_results,    \* results.json or results.csv exists in the output folder
    u_btn,        \* state of run_btn: "normal" or "disabled"
    u_status,     \* the status line
    u_worker,     \* per worker thread: "none", "running", "writing", "posted", "finished"
    u_after       \* the finish callbacks queued by self.after(0, finish), by worker

lpVars == <<lp_page, lp_table, lp_pc>>
fxVars == <<fx_table, fx_front, fx_rating, fx_pc>>
dVars == <<d_pages, d_idx, d_frontpage, d_out>>
sVars == <<s_caller, s_rows, s_pc, s_i, s_ratings, s_total, s_count, s_out>>
bVars == <<b_runner, b_files, b_i, b_output, b_end, b_written>>
uVars == <<u_pdf, u_out, u_overwrite, u_results, u_btn, u_status, u_worker, u_after>>
vars == <<lpVars, fxVars, dVars, sVars, bVars, uVars>>

---------------------------------------------------------------------------
(* Bounds of the model *)

MaxTokens == 3
MaxLines == 4
MaxPages == 3
MaxRows == 3
MaxFiles == 3
MaxRuns == 2

---------------------------------------------------------------------------
(* Python str operations on character sequences *)

SP == " "

\* s[k:]
slice_from(s, k) == SubSeq(s, k + 1, Len(s))

\* s[-k:] of a list
last_n(s, k) == IF Len(s) <= k THEN s ELSE SubSeq(s, Len(s) - k + 1, Len(s))

\* p occurs in s at (1-based) position i
occurs_at(s, p, i) == /\ i >= 1
                      /\ i + Len(p) - 1 <= Len(s)
                      /\ SubSeq(s, i, i + Len(p) - 1) = p

\* p in s
contains(s, p) == \E i \in 1..Len(s) : occurs_at(s, p, i)

\* s.find(p) + 1, for p in s
find(s, p) == CHOOSE i \in 1..Len(s) :
                 /\ occurs_at(s, p, i)
                 /\ \A j \in 1..(i - 1) : ~occurs_at(s, p, j)

\* s.split(sep, 1): a list of one or two parts
split_once(s, sep) ==
    IF contains(s, sep)
      THEN <<SubSeq(s, 1, find(s, sep) - 1),
             slice_from(s, find(s, sep) + Len(sep) - 1)>>
      ELSE <<s>>

\* s.split(sep): every non-overlapping occurrence, left to right
RECURSIVE split(_, _)
split(s, sep) ==
    IF contains(s, sep)
      THEN <<SubSeq(s, 1, find(s, sep) - 1)>>
             \o split(slice_from(s, find(s, sep) + Len(sep) - 1), sep)
      ELSE <<s>>

\* s.strip(), the only whitespace of the model's alphabet being the space
RECURSIVE strip(_)
strip(s) ==
    IF s = <<>> THEN s
    ELSE IF Head(s) = SP THEN strip(Tail(s))
    ELSE IF s[Len(s)] = SP THEN strip(SubSeq(s, 1, Len(s) - 1))
    ELSE s

\* " ".join(parts)
RECURSIVE join(_)
join(parts) ==
    IF parts = <<>> THEN <<>>
    ELSE IF Len(parts) = 1 THEN parts[1]
    ELSE parts[1] \o <<SP>> \o join(Tail(parts))

\* the decimal digits, and the strings made of them
Digits == {"0","1","2","3","4","5","6","7","8","9"}
IsDigits(s) == s # <<>> /\ \A i \in 1..Len(s) : s[i] \in Digits

\* results of calls that may return None or raise
Ok(v)      == [kind |-> "ok",    val |-> v,    exc |-> ""]
None       == [kind |-> "none",  val |-> <<>>, exc |-> ""]
Raise(e)   == [kind |-> "raise", val |-> <<>>, exc |-> e]
\* no call made yet
Pending    == [kind |-> "pending", val |-> <<>>, exc |-> ""]

\* the parts of the state a specification does not use
IdleLines == lp_page = <<>> /\ lp_table = <<>> /\ lp_pc = "idle"
IdleField == /\ fx_table = <<>> /\ fx_front = Pending
             /\ fx_rating = Pending /\ fx_pc = "idle"
IdleDoc   == /\ d_pages = <<>> /\ d_idx = 0
             /\ d_frontpage = Pending /\ d_out = Pending
IdleSummary == /\ s_caller = "idle" /\ s_rows = <<>> /\ s_pc = "idle" /\ s_i = 0
               /\ s_ratings = <<>> /\ s_total = <<>> /\ s_count = 0
               /\ s_out = Pending
NotWritten == [written |-> FALSE, rows |-> <<>>]
IdleBatch == /\ b_runner = "idle" /\ b_files = <<>> /\ b_i = 0 /\ b_output = <<>>
             /\ b_end = "idle" /\ b_written = NotWritten
IdleUI    == /\ u_pdf = "idle" /\ u_out = "idle" /\ u_overwrite = FALSE
             /\ u_results = FALSE /\ u_btn = "idle" /\ u_status = "idle"
             /\ u_worker = <<>> /\ u_after = <<>>

---------------------------------------------------------------------------
(* extract.py: constants *)

LINE_TITLE == <<"1","5"," ","T","a","k","i","n","g"," ","e","v","e","r","y",
                "t","h","i","n","g"," ","i","n","t","o"," ","a","c","c","o",
                "u","n","t",","," ","t","h","e"," ","i","n","s","t","r","u",
                "c","t","o","r"," ","w","a","s",":">>

LINE_COLS == <<"F","i","e","l","d"," ","M","e","a","n"," ","S","t","d"," ",
               "D","e","v","i","a","t","i","o","n"," ","C","o","u","n","t">>

\* 'There are no results yet to show. Please distribute your survey to gather'
SENTINEL_HEAD == <<"T","h","e","r","e"," ","a","r","e"," ","n","o"," ","r",
                   "e","s","u","l","t","s"," ","y","e","t"," ","t","o"," ",
                   "s","h","o","w","."," ","P","l","e","a","s","e"," ","d",
                   "i","s","t","r","i","b","u","t","e"," ","y","o","u","r",
                   " ","s","u","r","v","e","y"," ","t","o"," ","g","a","t",
                   "h","e","r">>

\* 'responses.'
SENTINEL_TAIL == <<"r","e","s","p","o","n","s","e","s",".">>

\* the literal of extract_page's last test
NO_RESULTS == SENTINEL_HEAD \o <<SP>> \o SENTINEL_TAIL

---------------------------------------------------------------------------
(* extract.py: extract_page *)

\* a sort on y alone
KeyLeYOnly(a, b) == a.y <= b.y

\* the sort key (w['y'], w['x']) of a is before or equal to that of b
key_le(a, b) == a.y < b.y \/ (a.y = b.y /\ a.x <= b.x)

\* one insertion of a stable sort: w goes after every word whose key is <= its key
insert_word(w, sorted) ==
    LET k == Cardinality({i \in 1..Len(sorted) : key_le(sorted[i], w)})
    IN  SubSeq(sorted, 1, k) \o <<w>> \o SubSeq(sorted, k + 1, Len(sorted))

\* words.sort(key=lambda w: (w['y'], w['x'])): list.sort is stable
RECURSIVE sort_words(_)
sort_words(words) ==
    IF words = <<>> THEN <<>>
    ELSE insert_word(words[Len(words)],
                     sort_words(SubSeq(words, 1, Len(words) - 1)))

\* the loop "for word in words" from its i-th word on, then the final append
RECURSIVE walk_words(_, _, _, _, _)
walk_words(words, i, table, line, last_y) ==
    IF i > Len(words) THEN Append(table, join(line))
    ELSE IF last_y # words[i].y
      THEN walk_words(words, i + 1, Append(table, join(line)),
                      <<words[i].text>>, words[i].y)
      ELSE walk_words(words, i + 1, table, Append(line, words[i].text), last_y)

\* page: the word elements of a page in document order, each [text, x, y]
extract_page(page) ==
    LET words == sort_words(page)
    IN  IF Len(words) = 0 THEN <<>>
        ELSE LET table == walk_words(words, 1, <<>>, <<>>, words[1].y)
             IN  IF Len(table) > 0 /\ table[1] = NO_RESULTS
                   THEN Tail(table)
                   ELSE table

---------------------------------------------------------------------------
(* Inputs of the line reconstruction *)

Word(t, x, y) == [text |-> t, x |-> x, y |-> y]

TokenTexts == {<<"a">>, <<"b", "c">>, SENTINEL_HEAD, SENTINEL_TAIL}
TokenXs == {0, 1}
TokenYs == {0, 1}
TokenPool == {Word(t, x, y) : t \in TokenTexts, x \in TokenXs, y \in TokenYs}

SeqsUpTo(S, n) == UNION {[1..k -> S] : k \in 0..n}

---------------------------------------------------------------------------
(* Specification of the line reconstruction: a page is drawn, extract_page
   is applied to it *)

InitLines ==
    /\ lp_page \in SeqsUpTo(TokenPool, MaxTokens)
    /\ lp_table = <<>>
    /\ lp_pc = "call"
    /\ IdleField /\ IdleDoc /\ IdleSummary /\ IdleBatch /\ IdleUI

ExtractPage ==
    /\ lp_pc = "call"
    /\ lp_table' = extract_page(lp_page)
    /\ lp_pc' = "done"
    /\ UNCHANGED <<lp_page, fxVars, dVars, sVars, bVars, uVars>>

NextLines == ExtractPage

SpecLines == InitLines /\ [][NextLines]_vars

---------------------------------------------------------------------------
(* extract.py: extract_frontpage *)

W_Eval       == <<"E","v","a","l">>
W_Evals      == <<"E","v","a","l","s">>
W_Evaluation == <<"E","v","a","l","u","a","t","i","o","n">>
W_CS         == <<"C","S">>
RPAREN       == <<")">>

\* for name in ["Eval", "Evals", "Evaluation"]
SEP_NAMES == <<W_Eval, W_Evals, W_Evaluation>>

\* name + " -"
sep_of(name) == name \o <<" ", "-">>

\* before, after = parts: unpacking a list into two names
unpack2(parts) == IF Len(parts) = 2 THEN Ok(parts) ELSE Raise("ValueError")

\* the loop over the names, and the "CS" fallback: Ok(<<before, after>>),
\* None (before is None) or the ValueError of an unpacking
split_title(line) ==
    LET hits == {i \in 1..Len(SEP_NAMES) : contains(line, sep_of(SEP_NAMES[i]))}
    IN  IF hits # {}
          THEN LET first == CHOOSE i \in hits : \A j \in hits : i <= j
               IN  unpack2(split(line, sep_of(SEP_NAMES[first])))
        ELSE IF contains(line, W_CS) THEN unpack2(split_once(line, W_CS))
        ELSE None

\* course, instructor from after
split_course(after) ==
    IF contains(after, RPAREN)
      THEN LET r == unpack2(split(after, RPAREN))
           IN  IF r.kind # "ok" THEN r
               ELSE Ok(<<r.val[1] \o RPAREN, strip(r.val[2])>>)
      ELSE unpack2(split_once(strip(after), <<SP>>))

extract_frontpage(table) ==
    IF Len(table) < 2 THEN None
    ELSE LET ba == split_title(table[2])
         IN  IF ba.kind # "ok" THEN ba
             ELSE LET ys == unpack2(split_once(strip(ba.val[1]), <<SP>>))
                      ci == split_course(ba.val[2])
                  IN  IF ys.kind # "ok" THEN ys
                      ELSE IF ci.kind # "ok" THEN ci
                      ELSE Ok([course     |-> ci.val[1],
                               instructor |-> ci.val[2],
                               year       |-> ys.val[1],
                               semester   |-> ys.val[2]])

---------------------------------------------------------------------------
(* extract.py: extract_data_from_page *)

\* a Python value of a record field: a str or an int
PyStr(s) == [t |-> "str", s |-> s, n |-> 0]
PyInt(n) == [t |-> "int", s |-> <<>>, n |-> n]

\* s[1:], which keeps the closing parenthesis
ExtractParenOpenOnly(s) == SubSeq(s, 2, Len(s))

\* s[1:-1]
extract_paren(s) == SubSeq(s, 2, Len(s) - 1)

\* the offset len(LINE_TITLE) + 2 of "line1 = table[0][...:]"
stats_offset == Len(LINE_TITLE) + 2

\* "if len(table) == 0" and "if table[0] != LINE_TITLE or table[1] != LINE_COLS":
\* None, the IndexError of table[1], or Ok(table) to go on
title_guard(table) ==
    IF Len(table) = 0 THEN None
    ELSE IF table[1] # LINE_TITLE THEN None
    ELSE IF Len(table) < 2 THEN Raise("IndexError")
    ELSE IF table[2] # LINE_COLS THEN None
    ELSE Ok(table)

\* the body after "table = table[2:]"
rating_fields(rest) ==
    IF Len(rest) = 0 THEN Raise("IndexError")
    ELSE LET line1 == last_n(split(slice_from(rest[1], stats_offset), <<SP>>), 3)
             last  == split(rest[Len(rest)], <<SP>>)
         IN  IF Len(line1) # 3 THEN Raise("ValueError")
             ELSE IF Len(last) # 11 THEN Raise("ValueError")
             ELSE Ok([mean          |-> PyStr(line1[1]),
                      std_deviation |-> PyStr(line1[2]),
                      count         |-> PyStr(line1[3]),
                      poor          |-> PyStr(extract_paren(last[2])),
                      below_average |-> PyStr(extract_paren(last[5])),
                      average       |-> PyStr(extract_paren(last[7])),
                      good          |-> PyStr(extract_paren(last[9])),
                      excellent     |-> PyStr(extract_paren(last[11]))])

extract_data_from_page(table) ==
    LET g == title_guard(table)
    IN  IF g.kind # "ok" THEN g ELSE rating_fields(slice_from(table, 2))

---------------------------------------------------------------------------
(* Inputs of the field extraction: lines of front pages and of rating pages *)

W_Poor      == <<"P","o","o","r">>
W_Below     == <<"B","e","l","o","w">>
W_Average   == <<"A","v","e","r","a","g","e">>
W_Good      == <<"G","o","o","d">>
W_Excellent == <<"E","x","c","e","l","l","e","n","t">>
DASH        == <<"-">>

Paren(n) == <<"(">> \o n \o <<")">>

\* 'Poor (n1) Below Average (n2) Average (n3) Good (n4) Excellent (n5)'
LastLine(n) ==
    join(<<W_Poor, Paren(n[1]), W_Below, W_Average, Paren(n[2]), W_Average,
           Paren(n[3]), W_Good, Paren(n[4]), W_Excellent, Paren(n[5])>>)

\* the title string followed by three values
TitleWithStats(v) == LINE_TITLE \o <<SP>> \o join(v)

\* a statistics row as the code reads it: stats_offset characters
\* ('15 - Taking ... was:'), then the values
ROW_LABEL == <<"1","5"," ","-"," ">> \o slice_from(LINE_TITLE, 3)
StatsRow(v) == ROW_LABEL \o <<SP>> \o join(v)

STATS_A == << <<"4",".","1","0">>, <<"0",".","9","5">>, <<"2","5">> >>
STATS_B == << <<"3",".","5">>, <<"1",".","2">>, <<"8">> >>
StatsPool == {STATS_A, STATS_B}

COUNTS_A == << <<"1">>, <<"2">>, <<"7">>, <<"7">>, <<"1","0">> >>
\* a count that is not an integer
COUNTS_X == << <<"1">>, <<"2">>, <<"x">>, <<"7">>, <<"1","0">> >>
CountsPool == {COUNTS_A, COUNTS_X}

\* 'Poor (1) Below (2) Average (7) Good (7) Excellent (10)': ten tokens
LAST_SHORT ==
    join(<<W_Poor, Paren(<<"1">>), W_Below, Paren(<<"2">>), W_Average,
           Paren(<<"7">>), W_Good, Paren(<<"7">>), W_Excellent,
           Paren(<<"1","0">>)>>)

\* '4.10': a line with one token and fewer than stats_offset characters
LINE_ONE_VALUE == <<"4",".","1","0">>

RatingLinePool ==
    {LINE_TITLE, LINE_COLS, LAST_SHORT, LINE_ONE_VALUE, TitleWithStats(STATS_A)}
      \cup {StatsRow(v) : v \in StatsPool}
      \cup {LastLine(n) : n \in CountsPool}

W_2020   == <<"2","0","2","0">>
W_Spring == <<"S","p","r","i","n","g">>
W_CS4XX  == <<"C","S","4","X","X","-","0","1">>
W_Jane   == <<"J","a","n","e">>
W_Doe    == <<"D","o","e">>
W_CS1    == <<"C","S","1">>
W_01     == <<"(","0","1",")">>
W_Report == <<"R","e","p","o","r","t">>

\* '2020 Spring Evals - CS4XX-01 Jane Doe'
FRONT_EVALS == join(<<W_2020, W_Spring, W_Evals, DASH, W_CS4XX, W_Jane, W_Doe>>)
\* '2020 Spring Eval - CS4XX-01 Jane Doe'
FRONT_EVAL == join(<<W_2020, W_Spring, W_Eval, DASH, W_CS4XX, W_Jane, W_Doe>>)
\* '2020 Spring Evaluation - CS1 (01) Jane Doe'
FRONT_PAREN == join(<<W_2020, W_Spring, W_Evaluation, DASH, W_CS1, W_01, W_Jane, W_Doe>>)
\* '2020 Spring Evals - CS1 Evals - Doe': the separator twice
FRONT_TWICE == join(<<W_2020, W_Spring, W_Evals, DASH, W_CS1, W_Evals, DASH, W_Doe>>)
\* '2020 Spring CS4XX-01 Jane Doe': only the "CS" fallback applies
FRONT_CS == join(<<W_2020, W_Spring, W_CS4XX, W_Jane, W_Doe>>)
\* '2020 Spring': no separator
FRONT_NOSEP == join(<<W_2020, W_Spring>>)

FrontLinePool ==
    {W_Report, FRONT_EVALS, FRONT_EVAL, FRONT_PAREN, FRONT_TWICE, FRONT_CS,
     FRONT_NOSEP}

---------------------------------------------------------------------------
(* Specification of the field extraction: the lines of a page are drawn,
   extract_frontpage and extract_data_from_page are applied to them *)

InitField ==
    /\ fx_table \in SeqsUpTo(FrontLinePool, MaxLines)
                      \cup SeqsUpTo(RatingLinePool, MaxLines)
    /\ fx_front = Pending
    /\ fx_rating = Pending
    /\ fx_pc = "front"
    /\ IdleLines /\ IdleDoc /\ IdleSummary /\ IdleBatch /\ IdleUI

CallFrontpage ==
    /\ fx_pc = "front"
    /\ fx_front' = extract_frontpage(fx_table)
    /\ fx_pc' = "rating"
    /\ UNCHANGED <<fx_table, fx_rating, lpVars, dVars, sVars, bVars, uVars>>

CallDataFromPage ==
    /\ fx_pc = "rating"
    /\ fx_rating' = extract_data_from_page(fx_table)
    /\ fx_pc' = "done"
    /\ UNCHANGED <<fx_table, fx_front, lpVars, dVars, sVars, bVars, uVars>>

NextField == CallFrontpage \/ CallDataFromPage

SpecField == InitField /\ [][NextField]_vars

---------------------------------------------------------------------------
(* Claims on the field extraction, under SpecField *)

\* the record the rating table gives, its five counts being the values c
RatingRecord(v, c) ==
    [mean |-> PyStr(v[1]), std_deviation |-> PyStr(v[2]), count |-> PyStr(v[3]),
     poor |-> c[1], below_average |-> c[2], average |-> c[3], good |-> c[4],
     excellent |-> c[5]]

\* the page has at least two lines, the title and the header
HasTitleAndHeader(table) ==
    /\ Len(table) >= 2
    /\ table[1] = LINE_TITLE
    /\ table[2] = LINE_COLS

C4_NoMatchWithoutTitleAndHeader ==
    (fx_pc = "done" /\ ~HasTitleAndHeader(fx_table)) => fx_rating = None

\* the token '(n)' of an integer n
IsParenInt(tok) ==
    /\ Len(tok) >= 3
    /\ tok[1] = "("
    /\ tok[Len(tok)] = ")"
    /\ IsDigits(extract_paren(tok))

\* the shape the claim expects of the lines after the title and header: a
\* line is left, the statistics line has three tokens, the last line is the
\* eleven-token pattern with integer counts
ExpectedShape(rest) ==
    /\ Len(rest) >= 1
    /\ Len(split(rest[1], <<SP>>)) >= 3
    /\ LET t == split(rest[Len(rest)], <<SP>>)
       IN  /\ Len(t) = 11
           /\ <<t[1], t[3], t[4], t[6], t[8], t[10]>>
                = <<W_Poor, W_Below, W_Average, W_Average, W_Good, W_Excellent>>
           /\ \A k \in {2, 5, 7, 9, 11} : IsParenInt(t[k])

\* C5: a table with the title and header whose other lines do not have the
\* expected shape gives 'no match': no partial record, no exception.
C5_NoMatchOnMalformedRest ==
    ( /\ fx_pc = "done"
      /\ HasTitleAndHeader(fx_table)
      /\ ~ExpectedShape(slice_from(fx_table, 2)) )
    => fx_rating = None

\* s up to its first space, and what follows it (all of s, and nothing,
\* when s has no space)
UpToSpace(s) == split_once(s, <<SP>>)[1]
AfterSpace(s) == IF contains(s, <<SP>>) THEN split_once(s, <<SP>>)[2] ELSE <<>>

\* the front-matter record as the claim describes it, for a line split at the
\* first occurrence of sep
RefFront(line, sep) ==
    LET before == split_once(line, sep)[1]
        after  == split_once(line, sep)[2]
        rest   == strip(after)
    IN  [year       |-> UpToSpace(before),
         semester   |-> strip(AfterSpace(before)),
         course     |-> IF contains(after, RPAREN)
                          THEN split_once(after, RPAREN)[1] \o RPAREN
                          ELSE UpToSpace(rest),
         instructor |-> IF contains(after, RPAREN)
                          THEN strip(split_once(after, RPAREN)[2])
                          ELSE strip(AfterSpace(rest))]

\* C6: when line 1 contains one of the separators, the result is the record
\* of the split at the first occurrence of a separator it contains, also
\* when that separator occurs more than once.
C6_SplitAtFirstOccurrence ==
    ( /\ fx_pc \in {"rating", "done"}
      /\ Len(fx_table) >= 2
      /\ \E i \in 1..Len(SEP_NAMES) : contains(fx_table[2], sep_of(SEP_NAMES[i])) )
    => \E i \in 1..Len(SEP_NAMES) :
          /\ contains(fx_table[2], sep_of(SEP_NAMES[i]))
          /\ fx_front = Ok(RefFront(fx_table[2], sep_of(SEP_NAMES[i])))

---------------------------------------------------------------------------
(* extract.py: parse_pdf_xml, from "frontpage = None" on; pages_to_search is
   the input *)

\* frontpage.update(res); return frontpage
dict_update(d, res) ==
    [k \in DOMAIN d \cup DOMAIN res |-> IF k \in DOMAIN res THEN res[k] ELSE d[k]]

\* "frontpage.update(res)" on the frontpage of page 0, which is None when
\* extract_frontpage returned None
merge_into_frontpage(frontpage, res) ==
    IF frontpage.kind = "ok" THEN Ok(dict_update(frontpage.val, res))
    ELSE Raise("AttributeError")

\* one iteration of "for idx, page in enumerate(pages_to_search)": the new
\* frontpage, and out: Pending to go on, else the return value or exception
page_step(frontpage, idx, page) ==
    LET table == extract_page(page)
    IN  IF idx = 0
          THEN LET fp == extract_frontpage(table)
               IN  IF fp.kind = "raise"
                     THEN [frontpage |-> frontpage, out |-> fp]
                     ELSE [frontpage |-> fp, out |-> Pending]
          ELSE LET res == extract_data_from_page(table)
               IN  IF res.kind = "raise"
                     THEN [frontpage |-> frontpage, out |-> res]
                   ELSE IF res.kind = "ok"
                     THEN [frontpage |-> frontpage,
                           out |-> merge_into_frontpage(frontpage, res.val)]
                   ELSE [frontpage |-> frontpage, out |-> Pending]

\* the loop from page idx on, and the "return None" after it
RECURSIVE pages_loop(_, _, _)
pages_loop(pages, idx, frontpage) ==
    IF idx >= Len(pages) THEN None
    ELSE LET st == page_step(frontpage, idx, pages[idx + 1])
         IN  IF st.out.kind # "pending" THEN st.out
             ELSE pages_loop(pages, idx + 1, st.frontpage)

parse_pdf_xml(pages) == pages_loop(pages, 0, None)

---------------------------------------------------------------------------
(* Inputs of the page loop: pages whose words are whole lines, one per y *)

PageOf(lines) == [i \in 1..Len(lines) |-> Word(lines[i], 0, i)]

COUNTS_0 == << <<"0">>, <<"0">>, <<"0">>, <<"0">>, <<"0">> >>

RATING_LINES_A == <<LINE_TITLE, LINE_COLS, StatsRow(STATS_A), LastLine(COUNTS_A)>>
RATING_LINES_B == <<LINE_TITLE, LINE_COLS, StatsRow(STATS_B), LastLine(COUNTS_0)>>

P_FRONT       == PageOf(<<W_Report, FRONT_EVALS>>)
\* one line: no front matter, no rating table
P_ONE_LINE    == PageOf(<<W_Report>>)
P_FRONT_NOSEP == PageOf(<<W_Report, FRONT_NOSEP>>)
P_RATING_A    == PageOf(RATING_LINES_A)
\* the rating table under the empty-results line, which extract_page drops
P_RATING_B    == PageOf(<<NO_RESULTS>> \o RATING_LINES_B)
P_TITLE_ONLY  == PageOf(<<LINE_TITLE>>)
P_NO_ROWS     == PageOf(<<LINE_TITLE, LINE_COLS>>)
P_EMPTY       == <<>>

PagePool == {P_FRONT, P_ONE_LINE, P_FRONT_NOSEP, P_RATING_A, P_RATING_B,
             P_TITLE_ONLY, P_NO_ROWS, P_EMPTY}

---------------------------------------------------------------------------
(* Specification of the page loop: the pages of a document are drawn,
   parse_pdf_xml's loop runs over them one iteration at a time *)

InitDoc ==
    /\ d_pages \in SeqsUpTo(PagePool, MaxPages)
    /\ d_idx = 0
    /\ d_frontpage = None
    /\ d_out = Pending
    /\ IdleLines /\ IdleField /\ IdleSummary /\ IdleBatch /\ IdleUI

PageIteration ==
    /\ d_out = Pending
    /\ d_idx < Len(d_pages)
    /\ LET st == page_step(d_frontpage, d_idx, d_pages[d_idx + 1])
       IN  /\ d_frontpage' = st.frontpage
           /\ d_out' = st.out
    /\ d_idx' = d_idx + 1
    /\ UNCHANGED <<d_pages, lpVars, fxVars, sVars, bVars, uVars>>

PagesExhausted ==
    /\ d_out = Pending
    /\ d_idx >= Len(d_pages)
    /\ d_out' = None
    /\ UNCHANGED <<d_pages, d_idx, d_frontpage, lpVars, fxVars, sVars, bVars, uVars>>

NextDoc == PageIteration \/ PagesExhausted

SpecDoc == InitDoc /\ [][NextDoc]_vars

---------------------------------------------------------------------------
(* Claims on the page loop, under SpecDoc *)

\* front-matter extraction fails on a table: fewer than 2 lines, or no
\* separator in line 1
FrontFails(table) ==
    \/ Len(table) < 2
    \/ /\ \A i \in 1..Len(SEP_NAMES) : ~contains(table[2], sep_of(SEP_NAMES[i]))
       /\ ~contains(table[2], W_CS)

\* the 1-based positions of the pages after page 0 that match the rating table
MatchingPages(pages) ==
    {i \in 2..Len(pages) : extract_data_from_page(extract_page(pages[i])).kind = "ok"}

\* C1: a document whose page 0 fails front-matter extraction yields nothing,
\* and not an exception, also when a later page matches the rating table.
\* (Stated for the documents none of whose later pages makes
\* extract_data_from_page raise: each matches or gives no match.)
C1_NoFrontMatterYieldsNothing ==
    ( /\ d_out # Pending
      /\ Len(d_pages) >= 1
      /\ FrontFails(extract_page(d_pages[1]))
      /\ \A i \in 2..Len(d_pages) :
             extract_data_from_page(extract_page(d_pages[i])).kind # "raise" )
    => d_out = None

\* C7: when page 0 yields front matter, the result is the front matter merged
\* with the rating record of the lowest-index page >= 1 that matches, whatever
\* the other pages are, and nothing when no such page matches.
C7_FirstMatchingPageMerged ==
    ( /\ d_out # Pending
      /\ Len(d_pages) >= 1
      /\ extract_frontpage(extract_page(d_pages[1])).kind = "ok" )
    => LET m == MatchingPages(d_pages)
       IN  IF m = {} THEN d_out = None
           ELSE LET first == CHOOSE i \in m : \A j \in m : i <= j
                IN  d_out = Ok(dict_update(
                        extract_frontpage(extract_page(d_pages[1])).val,
                        extract_data_from_page(extract_page(d_pages[first])).val))

---------------------------------------------------------------------------
(* calculate.py: Rating *)

DigitValue(c) ==
    CASE c = "0" -> 0 [] c = "1" -> 1 [] c = "2" -> 2 [] c = "3" -> 3
      [] c = "4" -> 4 [] c = "5" -> 5 [] c = "6" -> 6 [] c = "7" -> 7
      [] c = "8" -> 8 [] c = "9" -> 9

RECURSIVE parse_digits(_)
parse_digits(s) ==
    IF s = <<>> THEN 0
    ELSE 10 * parse_digits(SubSeq(s, 1, Len(s) - 1)) + DigitValue(s[Len(s)])

\* int(v): of an int, itself; of a str of digits, its value; of another str of
\* the model's alphabet, ValueError
py_int(v) ==
    IF v.t = "int" THEN Ok(v.n)
    ELSE IF IsDigits(v.s) THEN Ok(parse_digits(v.s))
    ELSE Raise("ValueError")

RatingFields == {"poor", "below_average", "average", "good", "excellent"}

Rating(p, b, a, g, e) ==
    [poor |-> p, below_average |-> b, average |-> a, good |-> g, excellent |-> e]

zero == Rating(0, 0, 0, 0, 0)

from_dict(data) ==
    LET r == [f \in RatingFields |-> py_int(data[f])]
    IN  IF \E f \in RatingFields : r[f].kind = "raise" THEN Raise("ValueError")
        ELSE Ok(Rating(r.poor.val, r.below_average.val, r.average.val,
                       r.good.val, r.excellent.val))

\* an add that leaves out other.good
AddWithoutOtherGood(self, other) ==
    Rating(self.poor + other.poor,
           self.below_average + other.below_average,
           self.average + other.average,
           self.good,
           self.excellent + other.excellent)

add(self, other) ==
    Rating(self.poor + other.poor,
           self.below_average + other.below_average,
           self.average + other.average,
           self.good + other.good,
           self.excellent + other.excellent)

get_count(self) ==
    self.poor + self.below_average + self.average + self.good + self.excellent

\* num / den of Python 3: the exact quotient as <<num, den>>, or
\* ZeroDivisionError
true_div(num, den) ==
    IF den = 0 THEN Raise("ZeroDivisionError") ELSE Ok(<<num, den>>)

get_top1(self) == true_div(100 * self.excellent, get_count(self))

get_top2(self) == true_div(100 * (self.excellent + self.good), get_count(self))

get_mean(self) ==
    true_div(1 * self.poor + 2 * self.below_average + 3 * self.average
               + 4 * self.good + 5 * self.excellent,
             get_count(self))

\* the three metrics in the order both callers ask for them: the first
\* exception, or the three values
metrics(total) ==
    LET t1 == get_top1(total)
        t2 == get_top2(total)
        m  == get_mean(total)
    IN  IF t1.kind = "raise" THEN t1
        ELSE IF t2.kind = "raise" THEN t2
        ELSE IF m.kind = "raise" THEN m
        ELSE Ok([Top1_percent |-> t1.val, Top2_percent |-> t2.val, Mean |-> m.val])

---------------------------------------------------------------------------
(* desktop_ui.py: _compute_summary *)

\* ratings = [calculate.Rating.from_dict(x) for x in extracted_rows]
ratings_of(rows) ==
    IF \E i \in 1..Len(rows) : from_dict(rows[i]).kind = "raise"
      THEN Raise("ValueError")
      ELSE Ok([i \in 1..Len(rows) |-> from_dict(rows[i]).val])

\* "for r in ratings: total = total.add(r)" from the i-th rating on
RECURSIVE add_all(_, _, _)
add_all(total, ratings, i) ==
    IF i > Len(ratings) THEN total
    ELSE add_all(add(total, ratings[i]), ratings, i + 1)

compute_summary(extracted_rows) ==
    LET rs == ratings_of(extracted_rows)
    IN  IF rs.kind = "raise" THEN rs
        ELSE IF Len(rs.val) = 0 THEN None
        ELSE metrics(add_all(zero, rs.val, 1))

---------------------------------------------------------------------------
(* Inputs of the summaries: rows as extract writes them, every value a str *)

Row(p, b, a, g, e, c) ==
    [poor |-> PyStr(p), below_average |-> PyStr(b), average |-> PyStr(a),
     good |-> PyStr(g), excellent |-> PyStr(e), count |-> PyStr(c)]

RowPool ==
    { Row(<<"0">>, <<"0">>, <<"0">>, <<"0">>, <<"0">>, <<"0">>),
      Row(<<"1">>, <<"2">>, <<"7">>, <<"7">>, <<"1","0">>, <<"2","7">>),
      Row(<<"0">>, <<"0">>, <<"0">>, <<"3">>, <<"7">>, <<"1","0">>),
      Row(<<"2">>, <<"1">>, <<"0">>, <<"0">>, <<"0">>, <<"0">>),
      Row(<<"1">>, <<"2">>, <<"x">>, <<"7">>, <<"1","0">>, <<"2","5">>) }

---------------------------------------------------------------------------
(* Specification of the summaries: the rows are drawn and one of the two
   roll-ups runs over them, one loop iteration at a time *)

InitSummary ==
    /\ s_caller \in {"compute_summary", "main"}
    /\ s_rows \in SeqsUpTo(RowPool, MaxRows)
    /\ s_pc = IF s_caller = "main" THEN "loop" ELSE "start"
    /\ s_i = 0
    /\ s_ratings = <<>>
    /\ s_total = zero
    /\ s_count = 0
    /\ s_out = Pending
    /\ IdleLines /\ IdleField /\ IdleDoc /\ IdleBatch /\ IdleUI

\* _compute_summary: the list of ratings, "if not ratings: return None",
\* "total = calculate.Rating.zero()"
SummaryConvert ==
    /\ s_caller = "compute_summary"
    /\ s_pc = "start"
    /\ LET rs == ratings_of(s_rows)
       IN  IF rs.kind = "raise"
             THEN s_out' = rs /\ s_pc' = "done" /\ UNCHANGED s_ratings
           ELSE IF Len(rs.val) = 0
             THEN s_out' = None /\ s_pc' = "done" /\ UNCHANGED s_ratings
           ELSE s_ratings' = rs.val /\ s_pc' = "loop" /\ UNCHANGED s_out
    /\ UNCHANGED <<s_caller, s_rows, s_i, s_total, s_count, lpVars, fxVars, dVars, bVars, uVars>>

\* _compute_summary: one "total = total.add(r)"
SummaryAdd ==
    /\ s_caller = "compute_summary"
    /\ s_pc = "loop"
    /\ s_i < Len(s_ratings)
    /\ s_total' = add(s_total, s_ratings[s_i + 1])
    /\ s_i' = s_i + 1
    /\ UNCHANGED <<s_caller, s_rows, s_pc, s_ratings, s_count, s_out,
                   lpVars, fxVars, dVars, bVars, uVars>>

\* _compute_summary: the returned dict
SummaryReturn ==
    /\ s_caller = "compute_summary"
    /\ s_pc = "loop"
    /\ s_i >= Len(s_ratings)
    /\ s_out' = metrics(s_total)
    /\ s_pc' = "done"
    /\ UNCHANGED <<s_caller, s_rows, s_i, s_ratings, s_total, s_count,
                   lpVars, fxVars, dVars, bVars, uVars>>

\* calculate.main: one iteration of "for line in data" (the locals excellents
\* and goods, which nothing reads, are left out)
MainLine ==
    /\ s_caller = "main"
    /\ s_pc = "loop"
    /\ s_i < Len(s_rows)
    /\ LET line   == s_rows[s_i + 1]
           rating == from_dict(line)
           cnt    == py_int(line.count)
       IN  IF rating.kind = "raise"
             THEN /\ s_out' = rating /\ s_pc' = "done"
                  /\ UNCHANGED <<s_total, s_ratings, s_count>>
           ELSE /\ s_total' = add(s_total, rating.val)
                /\ s_ratings' = Append(s_ratings, rating.val)
                /\ IF cnt.kind = "raise"
                     THEN s_out' = cnt /\ s_pc' = "done" /\ UNCHANGED s_count
                     ELSE s_count' = s_count + cnt.val /\ UNCHANGED <<s_out, s_pc>>
    /\ s_i' = s_i + 1
    /\ UNCHANGED <<s_caller, s_rows, lpVars, fxVars, dVars, bVars, uVars>>

\* calculate.main: top1, top2 over count, then the printed metrics
MainPrint ==
    /\ s_caller = "main"
    /\ s_pc = "loop"
    /\ s_i >= Len(s_rows)
    /\ LET top1 == true_div(s_total.excellent, s_count)
           top2 == true_div(s_total.excellent + s_total.good, s_count)
       IN  s_out' = IF top1.kind = "raise" THEN top1
                    ELSE IF top2.kind = "raise" THEN top2
                    ELSE metrics(s_total)
    /\ s_pc' = "done"
    /\ UNCHANGED <<s_caller, s_rows, s_i, s_ratings, s_total, s_count,
                   lpVars, fxVars, dVars, bVars, uVars>>

NextSummary ==
    SummaryConvert \/ SummaryAdd \/ SummaryReturn \/ MainLine \/ MainPrint

SpecSummary == InitSummary /\ [][NextSummary]_vars

---------------------------------------------------------------------------
(* Claims on the summaries, under SpecSummary *)

\* C9: the roll-ups ask for top1, top2 and mean only of a total whose count
\* is > 0, so no summary reaches a division by zero, whatever the rows
\* (an empty list, or rows whose five counts are all 0).
C9_NoDivisionByZero == s_out.exc # "ZeroDivisionError"

\* the sum of field f over the ratings at the positions I, in no order
RECURSIVE FieldSum(_, _, _)
FieldSum(ratings, f, I) ==
    IF I = {} THEN 0
    ELSE LET i == CHOOSE j \in I : TRUE
         IN  ratings[i][f] + FieldSum(ratings, f, I \ {i})

\* the ratings accumulated into the total so far
Accumulated ==
    IF s_caller = "main" THEN 1..Len(s_ratings) ELSE 1..s_i

\* ratings back to front
Reversed(q) == [i \in 1..Len(q) |-> q[Len(q) + 1 - i]]

\* C10: add is associative and commutative on the ratings and the total of
\* every reachable state and changes no operand (each rating is still what
\* from_dict made of its row), and the running total is the componentwise sum
\* of the ratings accumulated, the same when they are added back to front.
C10_AddAssocCommSum ==
    s_pc \in {"loop", "done"} =>
        LET ops == {s_total} \cup {s_ratings[i] : i \in 1..Len(s_ratings)}
            done == SubSeq(s_ratings, 1, Cardinality(Accumulated))
        IN  /\ \A a \in ops : \A b \in ops :
                 /\ add(a, b) = add(b, a)
                 /\ \A c \in ops : add(add(a, b), c) = add(a, add(b, c))
            /\ \A i \in 1..Len(s_ratings) : Ok(s_ratings[i]) = from_dict(s_rows[i])
            /\ \A f \in RatingFields :
                 s_total[f] = FieldSum(s_ratings, f, Accumulated)
            /\ s_total = add_all(zero, Reversed(done), 1)

\* C10 witness: three different ratings accumulated and summarised
C10_Witness ==
    /\ s_pc = "done"
    /\ s_caller = "compute_summary"
    /\ s_out.kind = "ok"
    /\ s_i = 3
    /\ Cardinality({s_ratings[i] : i \in 1..Len(s_ratings)}) = 3
    /\ s_total.good > 0

---------------------------------------------------------------------------
(* extract.py: process_pdf_file.  A file is what the converter and the XML
   parser make of it: no XML at all (pdf_to_xml returned None), XML that
   ET.fromstring rejects (parse_pdf_xml returns None) or the pages of the
   document *)

process_pdf_file(f) ==
    IF f.kind = "noxml" THEN None
    ELSE IF f.kind = "badxml" THEN None
    ELSE parse_pdf_xml(f.pages)

---------------------------------------------------------------------------
(* Inputs of a batch run *)

File(pages) == [kind |-> "pages", pages |-> pages]

F_NOXML     == [kind |-> "noxml", pages |-> <<>>]
F_BADXML    == [kind |-> "badxml", pages |-> <<>>]
F_RECORD_A  == File(<<P_FRONT, P_RATING_A>>)
\* a record whose five counts are 0
F_RECORD_0  == File(<<P_FRONT, P_ONE_LINE, P_RATING_B>>)
F_NO_TABLE  == File(<<P_FRONT, P_ONE_LINE>>)
\* no front matter, then a rating table
F_NO_FRONT  == File(<<P_ONE_LINE, P_RATING_A>>)
\* a page that is the title line alone
F_TITLE     == File(<<P_FRONT, P_TITLE_ONLY, P_RATING_A>>)

FilePool == {F_NOXML, F_BADXML, F_RECORD_A, F_RECORD_0, F_NO_TABLE, F_NO_FRONT,
             F_TITLE}

---------------------------------------------------------------------------
(* Specification of a batch run: the files are drawn, and the loop of
   extract.main or of the worker of desktop_ui.App.run goes over them *)

InitBatch ==
    /\ b_runner \in {"main", "worker"}
    /\ b_files \in SeqsUpTo(FilePool, MaxFiles)
    /\ b_i = 0
    /\ b_output = <<>>
    /\ b_end = "running"
    /\ b_written = NotWritten
    /\ IdleLines /\ IdleField /\ IdleDoc /\ IdleSummary /\ IdleUI

\* extract.main: one iteration of "for f in args.pdf_file".  An exception of
\* process_pdf_file is no KeyboardInterrupt: the finally clause prints output
\* and the exception leaves main
MainFile ==
    /\ b_runner = "main"
    /\ b_end = "running"
    /\ b_i < Len(b_files)
    /\ LET result == process_pdf_file(b_files[b_i + 1])
       IN  IF result.kind = "raise"
             THEN /\ b_end' = "exception"
                  /\ b_written' = [written |-> TRUE, rows |-> b_output]
                  /\ UNCHANGED b_output
           ELSE IF result.kind = "ok"
             THEN /\ b_output' = Append(b_output, result.val)
                  /\ UNCHANGED <<b_end, b_written>>
           ELSE UNCHANGED <<b_output, b_end, b_written>>
    /\ b_i' = b_i + 1
    /\ UNCHANGED <<b_runner, b_files, lpVars, fxVars, dVars, sVars, uVars>>

\* extract.main: the loop is over, finally prints output
MainDone ==
    /\ b_runner = "main"
    /\ b_end = "running"
    /\ b_i >= Len(b_files)
    /\ b_end' = "completed"
    /\ b_written' = [written |-> TRUE, rows |-> b_output]
    /\ UNCHANGED <<b_runner, b_files, b_i, b_output, lpVars, fxVars, dVars, sVars, uVars>>

\* extract.main: "except KeyboardInterrupt: pass", then finally prints output
MainKeyboardInterrupt ==
    /\ b_runner = "main"
    /\ b_end = "running"
    /\ b_end' = "interrupted"
    /\ b_written' = [written |-> TRUE, rows |-> b_output]
    /\ UNCHANGED <<b_runner, b_files, b_i, b_output, lpVars, fxVars, dVars, sVars, uVars>>

\* worker: "if not pdfs: self._ui_done(error=...); return"
WorkerNoPdfs ==
    /\ b_runner = "worker"
    /\ b_end = "running"
    /\ Len(b_files) = 0
    /\ b_end' = "done_error"
    /\ UNCHANGED <<b_runner, b_files, b_i, b_output, b_written,
                   lpVars, fxVars, dVars, sVars, uVars>>

\* worker: one iteration of "for i, p in enumerate(pdfs, start=1)", with its
\* "except Exception" around process_pdf_file
WorkerFile ==
    /\ b_runner = "worker"
    /\ b_end = "running"
    /\ b_i < Len(b_files)
    /\ LET row == process_pdf_file(b_files[b_i + 1])
       IN  b_output' = IF row.kind = "ok" THEN Append(b_output, row.val)
                       ELSE b_output
    /\ b_i' = b_i + 1
    /\ UNCHANGED <<b_runner, b_files, b_end, b_written, lpVars, fxVars, dVars, sVars, uVars>>

\* worker: after the loop the results are written, then the summary is
\* computed; an exception of it reaches the outer "except Exception"
WorkerWrite ==
    /\ b_runner = "worker"
    /\ b_end = "running"
    /\ Len(b_files) > 0
    /\ b_i >= Len(b_files)
    /\ b_written' = [written |-> TRUE, rows |-> b_output]
    /\ b_end' = IF compute_summary(b_output).kind = "raise"
                  THEN "done_error" ELSE "done_ok"
    /\ UNCHANGED <<b_runner, b_files, b_i, b_output, lpVars, fxVars, dVars, sVars, uVars>>

NextBatch ==
    \/ MainFile \/ MainDone \/ MainKeyboardInterrupt
    \/ WorkerNoPdfs \/ WorkerFile \/ WorkerWrite

SpecBatch == InitBatch /\ [][NextBatch]_vars

---------------------------------------------------------------------------
(* Claims on a batch run, under SpecBatch *)

\* the records of the files that give one, in the order of the files
RECURSIVE RecordsOf(_)
RecordsOf(files) ==
    IF files = <<>> THEN <<>>
    ELSE LET r == process_pdf_file(files[Len(files)])
             before == RecordsOf(SubSeq(files, 1, Len(files) - 1))
         IN  IF r.kind = "ok" THEN Append(before, r.val) ELSE before

\* C2: a run that no KeyboardInterrupt ended has called process_pdf_file on
\* every file, and its output holds the record of every file that gives one,
\* whichever files gave none or raised.
C2_BatchIndependence ==
    (b_end \in {"completed", "exception", "done_ok", "done_error"}
       /\ b_files # <<>>)
    => /\ b_i = Len(b_files)
       /\ b_written = [written |-> TRUE, rows |-> RecordsOf(b_files)]

---------------------------------------------------------------------------
(* desktop_ui.py: the window.  The Tk main thread runs one handler at a time:
   a user event (an edit of a folder field, a click) or a callback queued by
   self.after(0, ...).  Every run() that passes its checks starts a thread.
   A folder field is kept by what _validate and run() ask of it: "empty",
   "valid" (the path exists) or "missing" (text, but the path does not
   exist).  The log box and the progress bar are left out: nothing reads
   them. *)

ST_CHOOSE   == "Choose a PDF folder to begin."
ST_SCANNING == "Scanning PDFs"
ST_FOUND    == "Found PDFs. Extracting"
ST_EXTRACT  == "Extracting"
ST_WRITING  == "Writing results"
ST_FAILED   == "Failed"
ST_DONE     == "Done"

FieldStates == {"empty", "valid", "missing"}
Workers == 1..MaxRuns

\* App._validate: the state it gives to run_btn
validate(pdf, out) ==
    LET pdf_ok == pdf # "empty" /\ pdf = "valid"
        out_ok == out # "empty" /\ out = "valid"
    IN  IF pdf_ok /\ out_ok THEN "normal" ELSE "disabled"

\* self._ui_status(msg): self.after(0, lambda: self.status.set(msg))
ui_status(msg) == [cb |-> "status", msg |-> msg, w |-> 0]

\* self._ui_done(...): self.after(0, finish); error is the truth of "if error"
ui_done(w, error) ==
    [cb |-> "finish", msg |-> IF error THEN ST_FAILED ELSE ST_DONE, w |-> w]

\* the worker threads that run() started and whose finish has not yet run
ActiveWorkers ==
    {w \in Workers : u_worker[w] \in {"scan", "extract", "write", "writing", "posted"}}

---------------------------------------------------------------------------
(* Specification of the window: App.__init__ has built it, then the user
   acts, the worker threads step and the main loop runs the queued
   callbacks, in any order. *)

InitUI ==
    /\ u_pdf = "empty"
    /\ u_out = "valid"
    /\ u_overwrite = TRUE
    /\ u_results \in BOOLEAN
    /\ u_btn = "disabled"
    /\ u_status = ST_CHOOSE
    /\ u_worker = [w \in Workers |-> "none"]
    /\ u_after = <<>>
    /\ IdleLines /\ IdleField /\ IdleDoc /\ IdleSummary /\ IdleBatch

\* the user types in the PDF-folder field or picks a folder with Browse:
\* the write trace of pdf_dir calls _validate
EditPdfDir ==
    \E v \in FieldStates :
        /\ u_pdf' = v
        /\ u_btn' = validate(v, u_out)
        /\ UNCHANGED <<u_out, u_overwrite, u_results, u_status, u_worker, u_after,
                       lpVars, fxVars, dVars, sVars, bVars>>

\* the same for the output-folder field
EditOutDir ==
    \E v \in FieldStates :
        /\ u_out' = v
        /\ u_btn' = validate(u_pdf, v)
        /\ UNCHANGED <<u_pdf, u_overwrite, u_results, u_status, u_worker, u_after,
                       lpVars, fxVars, dVars, sVars, bVars>>

\* the folder named in a field is removed outside the program: nothing is
\* called
FolderRemoved ==
    /\ \/ u_pdf = "valid" /\ u_pdf' = "missing" /\ UNCHANGED u_out
       \/ u_out = "valid" /\ u_out' = "missing" /\ UNCHANGED u_pdf
    /\ UNCHANGED <<u_overwrite, u_results, u_btn, u_status, u_worker, u_after,
                   lpVars, fxVars, dVars, sVars, bVars>>

\* the user ticks or unticks "Overwrite existing results"
ToggleOverwrite ==
    /\ u_overwrite' = ~u_overwrite
    /\ UNCHANGED <<u_pdf, u_out, u_results, u_btn, u_status, u_worker, u_after,
                   lpVars, fxVars, dVars, sVars, bVars>>

\* App.run, the command of run_btn: Tk calls it on a click only while the
\* button is not disabled.  Its three early returns change nothing.
Run ==
    /\ u_btn = "normal"
    /\ \E w \in Workers : u_worker[w] = "none"
    /\ LET w == CHOOSE x \in Workers :
                    /\ u_worker[x] = "none"
                    /\ \A y \in Workers : u_worker[y] = "none" => x <= y
       IN  IF \/ u_pdf # "valid"
              \/ u_out # "valid"
              \/ (u_results /\ ~u_overwrite)
             THEN UNCHANGED <<u_btn, u_status, u_worker>>
             ELSE /\ u_btn' = "disabled"
                  /\ u_status' = ST_SCANNING
                  /\ u_worker' = [u_worker EXCEPT ![w] = "scan"]
    /\ UNCHANGED <<u_pdf, u_out, u_overwrite, u_results, u_after,
                   lpVars, fxVars, dVars, sVars, bVars>>

\* worker: the glob; "if not pdfs: self._ui_done(error=...); return", else
\* the status "Found n PDFs"
WorkerScan ==
    \E w \in Workers, found \in BOOLEAN :
        /\ u_worker[w] = "scan"
        /\ IF found
             THEN /\ u_worker' = [u_worker EXCEPT ![w] = "extract"]
                  /\ u_after' = Append(u_after, ui_status(ST_FOUND))
             ELSE /\ u_worker' = [u_worker EXCEPT ![w] = "posted"]
                  /\ u_after' = Append(u_after, ui_done(w, TRUE))
        /\ UNCHANGED <<u_pdf, u_out, u_overwrite, u_results, u_btn, u_status,
                       lpVars, fxVars, dVars, sVars, bVars>>

\* worker: the loop over the files, which catches every Exception of
\* process_pdf_file
WorkerExtract ==
    \E w \in Workers :
        /\ u_worker[w] = "extract"
        /\ u_worker' = [u_worker EXCEPT ![w] = "write"]
        /\ u_after' = Append(u_after, ui_status(ST_EXTRACT))
        /\ UNCHANGED <<u_pdf, u_out, u_overwrite, u_results, u_btn, u_status,
                       lpVars, fxVars, dVars, sVars, bVars>>

\* worker: the status "Writing results", then _write_json opens results.json
WorkerStartWrite ==
    \E w \in Workers :
        /\ u_worker[w] = "write"
        /\ u_worker' = [u_worker EXCEPT ![w] = "writing"]
        /\ u_after' = Append(u_after, ui_status(ST_WRITING))
        /\ u_results' = TRUE
        /\ UNCHANGED <<u_pdf, u_out, u_overwrite, u_btn, u_status,
                       lpVars, fxVars, dVars, sVars, bVars>>

\* worker: results.json and results.csv are written and the summary is
\* computed, then self._ui_done(ok=True); an exception of the writes or of
\* the summary reaches "except Exception as e: self._ui_done(error=str(e))"
WorkerEndWrite ==
    \E w \in Workers, raised \in BOOLEAN :
        /\ u_worker[w] = "writing"
        /\ u_worker' = [u_worker EXCEPT ![w] = "posted"]
        /\ u_after' = Append(u_after, ui_done(w, raised))
        /\ UNCHANGED <<u_pdf, u_out, u_overwrite, u_results, u_btn, u_status,
                       lpVars, fxVars, dVars, sVars, bVars>>

\* the main loop runs the oldest callback of self.after(0, ...): a status
\* update, or finish, which sets the status and calls _validate
AfterCallback ==
    /\ u_after # <<>>
    /\ LET c == Head(u_after)
       IN  /\ u_status' = c.msg
           /\ IF c.cb = "finish"
                THEN /\ u_worker' = [u_worker EXCEPT ![c.w] = "finished"]
                     /\ u_btn' = validate(u_pdf, u_out)
                ELSE UNCHANGED <<u_worker, u_btn>>
    /\ u_after' = Tail(u_after)
    /\ UNCHANGED <<u_pdf, u_out, u_overwrite, u_results,
                   lpVars, fxVars, dVars, sVars, bVars>>

NextUI ==
    \/ EditPdfDir \/ EditOutDir \/ FolderRemoved \/ ToggleOverwrite \/ Run
    \/ WorkerScan \/ WorkerExtract \/ WorkerStartWrite \/ WorkerEndWrite
    \/ AfterCallback

SpecUI == InitUI /\ [][NextUI]_vars

---------------------------------------------------------------------------
(* Claims on the window, under SpecUI *)

\* C11: run exclusion.  At most one worker thread is active at any time;
\* from the start of a worker until its finish callback has run, the Run
\* button is disabled, whatever the user does in between; and two workers
\* are never writing results.json and results.csv at the same time.
C11_RunExclusion ==
    /\ Cardinality(ActiveWorkers) <= 1
    /\ ActiveWorkers # {} => u_btn = "disabled"
    /\ Cardinality({w \in Workers : u_worker[w] = "writing"}) <= 1

---------------------------------------------------------------------------
(* C8: the reference reconstruction of the lines of a page, by rank and not
   by sorting and walking: the distinct y in ascending order, for each the
   texts of its tokens by ascending x (tokens at one (x, y) in document
   order), joined by single spaces *)

RefYs(page) == {page[i].y : i \in 1..Len(page)}

RefRow(page, y) == {i \in 1..Len(page) : page[i].y = y}

RefRank(page, i) ==
    1 + Cardinality({j \in RefRow(page, page[i].y) :
                       \/ page[j].x < page[i].x
                       \/ (page[j].x = page[i].x /\ j < i)})

RefLine(page, y) ==
    join([k \in 1..Cardinality(RefRow(page, y)) |->
            page[CHOOSE i \in RefRow(page, y) : RefRank(page, i) = k].text])

RefAllLines(page) ==
    [k \in 1..Cardinality(RefYs(page)) |->
        RefLine(page, CHOOSE y \in RefYs(page) :
                        Cardinality({z \in RefYs(page) : z < y}) = k - 1)]

RefLines(page) ==
    IF RefAllLines(page) # <<>> /\ RefAllLines(page)[1] = NO_RESULTS
      THEN Tail(RefAllLines(page))
      ELSE RefAllLines(page)

\* C8: for every drawn page, what extract_page returned is the reference
\* reconstruction: lines by ascending y, texts by ascending x joined by single
\* spaces, the first line dropped exactly when it is the empty-results
\* sentinel; the empty page gives the empty sequence.
C8_LinesAreReference ==
    lp_pc = "done" =>
        /\ lp_table = RefLines(lp_page)
        /\ (lp_page = <<>> => lp_table = <<>>)

\* C8 witness: three tokens out of reading order in the document, two lines,
\* the first of them the sentinel, which was dropped
C8_Witness ==
    /\ lp_pc = "done"
    /\ Len(lp_page) = 3
    /\ lp_page[1].y > lp_page[2].y
    /\ lp_page[2].y = lp_page[3].y
    /\ lp_page[2].x > lp_page[3].x
    /\ RefAllLines(lp_page)[1] = NO_RESULTS
    /\ Len(lp_table) = 1
    /\ lp_table[1] = lp_page[1].text

===========================================================================
